---- MODULE Spec2Model ----
(***************************************************************************)
(* Model of the binary row codec, the Streaming Batch Reader               *)
(* (binary_processor::BatchReader) and the Parallel Bulk Decoder           *)
(* (reader.rs, read_channels) of rust-binary-reader.                       *)
(*                                                                         *)
(* Representation of values:                                               *)
(*   u8   a number 0..255                                                  *)
(*   i32  a signed integer                                                 *)
(*   f64  its IEEE-754 bit pattern, as the tuple of its 8 bytes, most      *)
(*        significant byte first (TLC integers are 32 bits wide, so the    *)
(*        64-bit pattern is kept as bytes)                                 *)
(* usize is modelled for a 32-bit target where its width matters.          *)
(***************************************************************************)
EXTENDS Integers, Sequences, FiniteSets, TLC

----------------------------------------------------------------------------
(* Bounds of the model *)

MaxChannels == 1
MaxRows == 3
MaxExtra == 1
MaxWorkers == 2
MaxCalls == 4

----------------------------------------------------------------------------
(* Schema model: lib.rs *)

DataType == {"Bit", "Int", "Float"}

DataType_size(t) ==
    CASE t = "Bit" -> 1
      [] t = "Int" -> 4
      [] t = "Float" -> 8

RECURSIVE SumSizes(_)
SumSizes(channels) ==
    IF channels = <<>> THEN 0
    ELSE DataType_size(Head(channels)) + SumSizes(Tail(channels))

\* faulty variant: the 8 bytes of the timestamp forgotten
Schema_row_size_NoTimestamp(channels) == SumSizes(channels)

\* Schema::row_size: timestamp (8 bytes) + sum of channel sizes
Schema_row_size(channels) == 8 + SumSizes(channels)

----------------------------------------------------------------------------
(* Little-endian scalar codec: byteorder's WriteBytesExt / ReadBytesExt as  *)
(* used by generator.rs, lib.rs and reader.rs                              *)

Reverse(s) == [j \in 1..Len(s) |-> s[Len(s) + 1 - j]]

write_u8(v) == <<v>>

write_i32_LE(v) ==
    LET v1 == v \div 256
        v2 == v1 \div 256
        v3 == v2 \div 256
    IN <<v % 256, v1 % 256, v2 % 256, v3 % 256>>

write_f64_LE(v) == Reverse(v)

read_u8(b) == b[1]

\* faulty variant: the four bytes taken most significant first
read_i32_BE(b) ==
    b[4] + 256 * b[3] + 65536 * b[2]
         + 16777216 * (IF b[1] >= 128 THEN b[1] - 256 ELSE b[1])

read_i32_LE(b) ==
    b[1] + 256 * b[2] + 65536 * b[3]
         + 16777216 * (IF b[4] >= 128 THEN b[4] - 256 ELSE b[4])

read_f64_LE(b) == Reverse(b)

EncodeValue(t, v) ==
    CASE t = "Bit" -> write_u8(v)
      [] t = "Int" -> write_i32_LE(v)
      [] t = "Float" -> write_f64_LE(v)

DecodeValue(t, b) ==
    CASE t = "Bit" -> read_u8(b)
      [] t = "Int" -> read_i32_LE(b)
      [] t = "Float" -> read_f64_LE(b)

\* &m[a..b]: a checked slice; out of range is a panic, never a read
Slice(m, a, b) ==
    IF a <= b /\ b <= Len(m)
    THEN [ok |-> TRUE, bytes |-> SubSeq(m, a + 1, b)]
    ELSE [ok |-> FALSE, bytes |-> <<>>]

\* Cursor::new(bytes) and one typed read from it; a read that needs more
\* bytes than remain fails (UnexpectedEof) and the unwrap panics
Cursor_new(bytes) == [bytes |-> bytes, pos |-> 0]

CursorRead(cur, t) ==
    LET n == DataType_size(t) IN
    IF cur.pos + n <= Len(cur.bytes)
    THEN [ok |-> TRUE,
          val |-> DecodeValue(t, SubSeq(cur.bytes, cur.pos + 1, cur.pos + n)),
          cur |-> [cur EXCEPT !.pos = cur.pos + n],
          rd |-> [lo |-> cur.pos, hi |-> cur.pos + n, len |-> Len(cur.bytes)]]
    ELSE [ok |-> FALSE, val |-> 0, cur |-> cur,
          rd |-> [lo |-> cur.pos, hi |-> cur.pos + n, len |-> Len(cur.bytes)]]

\* faulty variant: every buffer created as a Float buffer
NewBuffersAllFloat(channels) ==
    [i \in 1..Len(channels) |-> [tag |-> "Float", vals |-> <<>>]]

\* one empty, tagged column buffer per channel
\* (lib.rs 104-117, reader.rs 52-65 and 97-106)
NewBuffers(channels) ==
    [i \in 1..Len(channels) |-> [tag |-> channels[i], vals |-> <<>>]]

ChannelData_len(d) == Len(d.vals)

\* faulty variant: no first column counted as a column of length 0
FirstColumnLenOrZero(channels_data) ==
    [ok |-> TRUE,
     len |-> IF Len(channels_data) = 0 THEN 0
             ELSE ChannelData_len(channels_data[1])]

\* channels_data[0].len() (data_converter main.rs 84, reader.rs 137): the
\* index is checked, and out of range it panics
FirstColumnLen(channels_data) ==
    IF Len(channels_data) = 0 THEN [ok |-> FALSE, len |-> 0]
    ELSE [ok |-> TRUE, len |-> ChannelData_len(channels_data[1])]

----------------------------------------------------------------------------
(* The encoder: generator.rs, one row = timestamp then one value per       *)
(* channel in schema order                                                 *)

RECURSIVE EncodeChannels(_, _)
EncodeChannels(channels, vals) ==
    IF channels = <<>> THEN <<>>
    ELSE EncodeValue(Head(channels), Head(vals))
             \o EncodeChannels(Tail(channels), Tail(vals))

EncodeRow(channels, row) ==
    write_f64_LE(row.ts) \o EncodeChannels(channels, row.vals)

RECURSIVE EncodeRows(_, _)
EncodeRows(channels, rs) ==
    IF rs = <<>> THEN <<>>
    ELSE EncodeRow(channels, Head(rs)) \o EncodeRows(channels, Tail(rs))

----------------------------------------------------------------------------
(* Input data: the rows of known values that were encoded into the file    *)

\* bit patterns of 2.5, -0.0, a NaN with a payload, and 0.1
FloatTable ==
    << <<64, 4, 0, 0, 0, 0, 0, 0>>,
       <<128, 0, 0, 0, 0, 0, 0, 0>>,
       <<127, 248, 0, 0, 0, 0, 0, 1>>,
       <<63, 185, 153, 153, 153, 153, 153, 154>> >>

IntTable == <<-5, 16909060, -2147483647 - 1, 2147483647, 0, -1>>

\* the timestamp 1000.0 + a row-dependent mantissa
KnownTs(r) == <<64, 143, 64, 0, 0, 0, 0, r>>

KnownValue(r, i, t) ==
    CASE t = "Bit" -> (r + i + 1) % 2
      [] t = "Int" -> IntTable[((2 * r + i + 5) % 6) + 1]
      [] t = "Float" -> FloatTable[((r + i + 2) % 4) + 1]

\* row r (0-based) of the data set
KnownRow(channels, r) ==
    [ts |-> KnownTs(r),
     vals |-> [i \in 1..Len(channels) |-> KnownValue(r, i - 1, channels[i])]]

KnownRows(channels, n) ==
    [r \in 1..n |-> KnownRow(channels, r - 1)]

\* bytes of an incomplete trailing row
TrailingBytes(k) == [j \in 1..k |-> (170 + j) % 256]

RECURSIVE SeqsUpTo(_, _)
SeqsUpTo(S, n) ==
    IF n = 0 THEN {<<>>}
    ELSE LET shorter == SeqsUpTo(S, n - 1)
         IN shorter \cup {Append(s, x) : s \in shorter, x \in S}

\* the schema of the specification's scenario, and two more with several
\* channels
ScenarioSchema == <<"Bit", "Int", "Float">>

Schemas ==
    SeqsUpTo(DataType, MaxChannels)
        \cup {ScenarioSchema, <<"Float", "Bit">>, <<"Int", "Int">>}

Min(a, b) == IF a <= b THEN a ELSE b

None == [some |-> FALSE, cols |-> <<>>]

Some(cols) == [some |-> TRUE, cols |-> cols]

----------------------------------------------------------------------------
(* State *)

VARIABLES
    schema,       \* Schema.channels: the channels' data types, in order
    rows,         \* the rows of known values the encoder wrote
    file,         \* the bytes of the binary source file
    session,      \* "none" | "ready": whether a BatchReader exists
    mmap,         \* BatchReader.mmap
    row_size,     \* BatchReader.row_size
    total_rows,   \* BatchReader.total_rows
    current_row,  \* BatchReader.current_row
    ret,          \* the last call on the reader and what it returned
    acc,          \* per channel, the batches returned so far, concatenated
    windows,      \* the byte windows the last call sliced from the map,
                  \* each with the cursor positions of its channel reads
    panicked,     \* "none", or the panic that ended the program
    bd,           \* the Bulk Decoder: the locals of read_channels
    env,          \* what was appended to the file after the last session
    conv,         \* the converter: the locals of data_converter's main
    hist          \* the batch sizes of the batches a monitored session
                  \* returned, in order

vars == <<schema, rows, file, session, mmap, row_size, total_rows,
          current_row, ret, acc, windows, panicked, bd, env, conv, hist>>

reader_vars == <<session, mmap, row_size, total_rows, current_row, ret, acc>>

\* a slot of partial_results that no chunk result has been collected into
NoResult == [done |-> FALSE, cols |-> <<>>]

\* read_channels before it is called, and after it has returned or failed
\* (pc "idle", "returned"): its locals do not exist
BulkIdle ==
    [pc |-> "idle", mmap |-> <<>>, row_size |-> 0, block_size |-> 0,
     total_rows |-> 0, num_channels |-> 0, chunk_size |-> 0, workers |-> 0,
     chunks |-> <<>>, task |-> <<>>, chunk_results |-> <<>>,
     partial_results |-> <<>>, final_results |-> <<>>, merged |-> 0,
     order |-> <<>>, prev |-> None, err |-> "none", num_rows |-> 0]

\* nothing appended: appended bytes, and the file length and the row count
\* of the session before them
NoAppend == [appended |-> 0, base_len |-> 0, base_rows |-> 0]

\* data_converter's main before its reader exists
ConvIdle ==
    [pc |-> "idle", memory_limit_mb |-> 0, total_rows |-> 0, batch_size |-> 0,
     processed_rows |-> 0, channels_data |-> <<>>, timestamps |-> <<>>,
     written |-> <<>>]

NoCall == [op |-> "none", a |-> 0, b |-> 0, start |-> 0,
           batch |-> None, ts |-> <<>>, n |-> 0, err |-> "none"]

Init ==
    /\ schema \in Schemas
    /\ \E n \in 0..MaxRows : rows = KnownRows(schema, n)
    /\ \E extra \in 0..Min(MaxExtra, Schema_row_size(schema) - 1) :
           file = EncodeRows(schema, rows) \o TrailingBytes(extra)
    /\ session = "none"
    /\ mmap = <<>>
    /\ row_size = 0
    /\ total_rows = 0
    /\ current_row = 0
    /\ ret = NoCall
    /\ acc = <<>>
    /\ windows = {}
    /\ panicked = "none"
    /\ bd = BulkIdle
    /\ env = NoAppend
    /\ conv = ConvIdle
    /\ hist = <<>>

----------------------------------------------------------------------------
(* Streaming Batch Reader: lib.rs, impl BatchReader *)

\* faulty variant: a trailing partial row counted as a row
TotalRowsCeil(len, rs) == (len + rs - 1) \div rs

\* mmap.len() / row_size
TotalRowsOf(len, rs) == len \div rs

\* what File::open(filename)? and Mmap::map(&file)? can return to the caller:
\* the error of the open, or of the map
OpenErrors == {"open failed", "map failed"}

\* faulty variant: the error swallowed and a reader built over an empty map
BatchReader_new_NoReturn(e, f, channels) ==
    [ok |-> TRUE, err |-> e, mmap |-> IF e = "none" THEN f ELSE <<>>,
     row_size |-> Schema_row_size(channels),
     total_rows |-> IF e = "none"
                    THEN TotalRowsOf(Len(f), Schema_row_size(channels))
                    ELSE 0]

\* BatchReader::new, given the outcome e of opening and mapping the file f:
\* with an error, `?` returns it and no reader is built
BatchReader_new_of(e, f, channels) ==
    IF e # "none"
    THEN [ok |-> FALSE, err |-> e, mmap |-> <<>>, row_size |-> 0,
          total_rows |-> 0]
    ELSE [ok |-> TRUE, err |-> "none", mmap |-> f,
          row_size |-> Schema_row_size(channels),
          total_rows |-> TotalRowsOf(Len(f), Schema_row_size(channels))]

\* the call of BatchReader::new in main (data_converter main.rs 43); after
\* an error main returns it, and no second call follows
BatchReader_try_new(e) ==
    /\ session = "none"
    /\ panicked = "none"
    /\ ret.err = "none"
    /\ LET r == BatchReader_new_of(e, file, schema)
       IN /\ session' = IF r.ok THEN "ready" ELSE "none"
          /\ mmap' = r.mmap
          /\ row_size' = r.row_size
          /\ total_rows' = r.total_rows
          /\ current_row' = 0
          /\ ret' = [NoCall EXCEPT !.op = "new", !.err = r.err]
          /\ acc' = IF r.ok THEN [i \in 1..Len(schema) |-> <<>>] ELSE <<>>
    /\ windows' = {}
    /\ UNCHANGED <<hist, conv, schema, rows, file, panicked, bd, env>>

\* BatchReader::new on a file that can be opened and mapped (a file of
\* length 0 maps to an empty view)
BatchReader_new == BatchReader_try_new("none")

\* the reader goes out of scope: its map is released
BatchReader_drop ==
    /\ session = "ready"
    /\ panicked = "none"
    /\ session' = "none"
    /\ mmap' = <<>>
    /\ row_size' = 0
    /\ total_rows' = 0
    /\ current_row' = 0
    /\ ret' = NoCall
    /\ acc' = <<>>
    /\ windows' = {}
    /\ env' = [env EXCEPT !.base_len = Len(file), !.base_rows = total_rows]
    /\ UNCHANGED <<hist, conv, schema, rows, file, panicked, bd>>

\* between two sessions, k more bytes are appended to the file (once)
AppendBytes(k) ==
    /\ session = "none"
    /\ panicked = "none"
    /\ env.base_len = Len(file)
    /\ env.appended = 0
    /\ file' = file \o TrailingBytes(k)
    /\ env' = [env EXCEPT !.appended = k]
    /\ UNCHANGED <<hist, conv, schema, rows, reader_vars, windows, panicked, bd>>

\* faulty variant: > in place of >=
ExhaustedOnlyAtEnd(cur, total) == cur > total

\* if self.current_row >= self.total_rows { return None; }
Exhausted(cur, total) == cur >= total

\* faulty variant: a batch of at least one row
RowsToReadAtLeastOne(batch_size, remaining) ==
    Min(IF batch_size = 0 THEN 1 ELSE batch_size, remaining)

\* faulty variant: the batch size not clipped to the rows that remain
RowsToReadUnclipped(batch_size, remaining) == batch_size

\* std::cmp::min(batch_size, self.total_rows - self.current_row)
RowsToRead(batch_size, remaining) == Min(batch_size, remaining)

\* for i in 0..num_channels { match &mut results[i] { .. vec.push(cursor.read..) } }
\* (lib.rs 140-146, reader.rs 76-86): the read is chosen by the buffer's tag
\* reads: per channel read so far, the cursor positions [lo, hi) it took
RECURSIVE ReadRowValues(_, _, _, _, _)
ReadRowValues(cur, bufs, i, num_channels, reads) ==
    IF i >= num_channels
    THEN [ok |-> TRUE, bufs |-> bufs, cur |-> cur, reads |-> reads]
    ELSE LET r == CursorRead(cur, bufs[i + 1].tag)
         IN IF ~r.ok
            THEN [ok |-> FALSE, bufs |-> bufs, cur |-> cur, reads |-> reads]
            ELSE ReadRowValues(r.cur,
                               [bufs EXCEPT ![i + 1].vals = Append(@, r.val)],
                               i + 1, num_channels,
                               Append(reads, [lo |-> r.rd.lo, hi |-> r.rd.hi]))

\* faulty variant: the window of the next row
RowStartOffByOne(start_row, idx, rs) == (start_row + idx + 1) * rs

\* let row_start = (start_row + idx) * self.row_size;
RowStart(start_row, idx, rs) == (start_row + idx) * rs

\* the row loop of read_batch; st = [bufs, windows, panic]
RECURSIVE ReadBatchRows(_, _, _, _, _, _, _)
ReadBatchRows(m, rs, start_row, rows_to_read, idx, num_channels, st) ==
    IF idx >= rows_to_read \/ st.panic # "none" THEN st
    ELSE LET row_start == RowStart(start_row, idx, rs)
             sl == Slice(m, row_start, row_start + rs)
             c0 == Cursor_new(sl.bytes)
             tsr == CursorRead(c0, "Float")
             rv == ReadRowValues(tsr.cur, st.bufs, 0, num_channels, <<>>)
             w == [kind |-> "row", lo |-> row_start, hi |-> row_start + rs,
                   used |-> IF sl.ok /\ tsr.ok THEN rv.cur.pos ELSE 0,
                   reads |-> IF sl.ok /\ tsr.ok THEN rv.reads ELSE <<>>]
         IN IF ~sl.ok
            THEN [st EXCEPT !.panic = "slice index out of range",
                            !.windows = @ \cup {w}]
            ELSE IF ~tsr.ok \/ ~rv.ok
            THEN [st EXCEPT !.panic = "failed to fill whole buffer",
                            !.windows = @ \cup {w}]
            ELSE ReadBatchRows(m, rs, start_row, rows_to_read, idx + 1,
                               num_channels,
                               [st EXCEPT !.bufs = rv.bufs,
                                          !.windows = @ \cup {w}])

\* faulty variant: = in place of +=
AdvanceCursorAssign(cur, rows_to_read) == rows_to_read

\* self.current_row += rows_to_read;
AdvanceCursor(cur, rows_to_read) == cur + rows_to_read

\* BatchReader::read_batch, as a function of the reader's fields
read_batch(m, channels, rs, total, cur, batch_size) ==
    IF Exhausted(cur, total)
    THEN [value |-> None, current_row |-> cur, windows |-> {}, panic |-> "none"]
    ELSE LET rows_to_read == RowsToRead(batch_size, total - cur)
             start_row == cur
             st == ReadBatchRows(m, rs, start_row, rows_to_read, 0,
                                 Len(channels),
                                 [bufs |-> NewBuffers(channels),
                                  windows |-> {}, panic |-> "none"])
         IN IF st.panic # "none"
            THEN [value |-> None, current_row |-> cur,
                  windows |-> st.windows, panic |-> st.panic]
            ELSE [value |-> Some(st.bufs),
                  current_row |-> AdvanceCursor(cur, rows_to_read),
                  windows |-> st.windows, panic |-> "none"]

\* per channel, acc extended by the batch's column
Extend(dest, batch) ==
    [i \in 1..Len(dest) |->
        IF i <= Len(batch) THEN dest[i] \o batch[i].vals ELSE dest[i]]

\* the batch sizes of the specification's tests, with 0 and 2
BatchSizes == {0, 1, 2, 3, total_rows + 5}

\* a call of read_batch on the reader
ReadBatchCall(batch_size) ==
    /\ session = "ready"
    /\ panicked = "none"
    /\ LET r == read_batch(mmap, schema, row_size, total_rows, current_row,
                           batch_size)
       IN /\ current_row' = r.current_row
          /\ ret' = [NoCall EXCEPT !.op = "read_batch", !.a = batch_size,
                                   !.start = current_row, !.batch = r.value]
          /\ acc' = IF r.value.some THEN Extend(acc, r.value.cols) ELSE acc
          /\ windows' = r.windows
          /\ panicked' = r.panic
    /\ UNCHANGED <<conv, schema, rows, file, session, mmap, row_size,
                   total_rows, bd, env>>

ReadBatch(batch_size) ==
    /\ ReadBatchCall(batch_size)
    /\ UNCHANGED hist

\* a call of read_batch in a session whose batches are counted
StreamReadBatch(batch_size) ==
    /\ ReadBatchCall(batch_size)
    /\ hist' = IF ret'.batch.some THEN Append(hist, batch_size) ELSE hist

\* BatchReader::total_rows
TotalRows ==
    /\ session = "ready"
    /\ panicked = "none"
    /\ ret' = [NoCall EXCEPT !.op = "total_rows", !.n = total_rows]
    /\ windows' = {}
    /\ UNCHANGED <<hist, conv, schema, rows, file, session, mmap, row_size, total_rows,
                   current_row, acc, panicked, bd, env>>

\* isize::MAX of the target (32-bit usize)
ISIZE_MAX == 2147483647

\* Vec::with_capacity(n) for elements of elem_size bytes panics with
\* "capacity overflow" when the allocation would exceed isize::MAX bytes
WithCapacityOk(n, elem_size) == n <= ISIZE_MAX \div elem_size

\* faulty variant: the loop never breaks at total_rows
PastEndNever(start_row, i, total) == FALSE

\* if start_row + i >= self.total_rows { break; }
PastEnd(start_row, i, total) == start_row + i >= total

\* the loop of read_timestamps; st = [ts, windows, panic]
RECURSIVE ReadTimestampRows(_, _, _, _, _, _, _)
ReadTimestampRows(m, rs, total, start_row, count, i, st) ==
    IF i >= count \/ st.panic # "none" \/ PastEnd(start_row, i, total) THEN st
    ELSE LET offset == (start_row + i) * rs
             sl == Slice(m, offset, offset + 8)
             r == CursorRead(Cursor_new(sl.bytes), "Float")
             w == [kind |-> "timestamp", lo |-> offset, hi |-> offset + 8,
                   used |-> IF sl.ok /\ r.ok THEN r.cur.pos ELSE 0,
                   reads |-> <<>>]
         IN IF ~sl.ok
            THEN [st EXCEPT !.panic = "slice index out of range",
                            !.windows = @ \cup {w}]
            ELSE IF ~r.ok
            THEN [st EXCEPT !.panic = "failed to fill whole buffer",
                            !.windows = @ \cup {w}]
            ELSE ReadTimestampRows(m, rs, total, start_row, count, i + 1,
                                   [st EXCEPT !.ts = Append(@, r.val),
                                              !.windows = @ \cup {w}])

\* BatchReader::read_timestamps
read_timestamps(m, rs, total, start_row, count) ==
    IF ~WithCapacityOk(count, 8)
    THEN [ts |-> <<>>, windows |-> {}, panic |-> "capacity overflow"]
    ELSE ReadTimestampRows(m, rs, total, start_row, count, 0,
                           [ts |-> <<>>, windows |-> {}, panic |-> "none"])

\* a count (or start row) whose f64 buffer would not fit in isize::MAX bytes
HugeCount == (ISIZE_MAX \div 8) + 1

StartRows == (0..MaxRows) \cup {HugeCount}

Counts == {0, 1, 2, total_rows + 5, HugeCount}

ReadTimestamps(start_row, count) ==
    /\ session = "ready"
    /\ panicked = "none"
    /\ LET r == read_timestamps(mmap, row_size, total_rows, start_row, count)
       IN /\ ret' = [NoCall EXCEPT !.op = "read_timestamps", !.a = start_row,
                                   !.b = count, !.ts = r.ts]
          /\ windows' = r.windows
          /\ panicked' = r.panic
    /\ UNCHANGED <<hist, conv, schema, rows, file, session, mmap, row_size, total_rows,
                   current_row, acc, bd, env>>

----------------------------------------------------------------------------
(* Parallel Bulk Decoder: reader.rs, read_channels *)

\* let chunk_size = 10_000;
CHUNK_SIZE == 10000

\* read_channels fixes chunk_size = CHUNK_SIZE; the model takes the chunk size
\* as a parameter of the call, drawn from the chunk sizes of the
\* specification's tests {1, 7, 10000, total_rows}, with 2. Likewise the
\* number of workers of the thread pool is a parameter of the call.
ChunkSizes(total) == {1, 2, 7, CHUNK_SIZE, total}

\* faulty variant: the last, shorter chunk dropped
NumChunksFloor(total, chunk_size) == total \div chunk_size

\* let num_chunks = (total_rows + chunk_size - 1) / chunk_size;
NumChunks(total, chunk_size) == (total + chunk_size - 1) \div chunk_size

\* faulty variant: the end of the last chunk not clipped to total_rows
ChunksOfUnclipped(total, chunk_size) ==
    [c \in 1..NumChunks(total, chunk_size) |->
        <<(c - 1) * chunk_size, c * chunk_size>>]

\* (0..num_chunks).map(|i| (i * chunk_size, min((i + 1) * chunk_size, total_rows)))
ChunksOf(total, chunk_size) ==
    [c \in 1..NumChunks(total, chunk_size) |->
        <<(c - 1) * chunk_size, Min(c * chunk_size, total)>>]

\* read_channels up to the start of the parallel map (reader.rs 13-45); with
\* chunk_size = 0 the computation of num_chunks panics (the subtraction
\* overflows in a debug build, the division by zero panics in any build)
BulkCall(chunk_size, workers) ==
    /\ session = "none"
    /\ panicked = "none"
    /\ LET pre_skip == 8
           block_size == SumSizes(schema)
           rs == pre_skip + block_size
           total == TotalRowsOf(Len(file), rs)
       IN IF chunk_size = 0
          THEN /\ panicked' = "attempt to divide by zero"
               /\ bd' = [BulkIdle EXCEPT !.pc = "panicked",
                                         !.chunk_size = chunk_size]
          ELSE /\ panicked' = panicked
               /\ bd' = [BulkIdle EXCEPT
                    !.pc = "parallel",
                    !.mmap = file,
                    !.row_size = rs,
                    !.block_size = block_size,
                    !.total_rows = total,
                    !.num_channels = Len(schema),
                    !.chunk_size = chunk_size,
                    !.workers = workers,
                    !.chunks = ChunksOf(total, chunk_size),
                    !.task = [c \in 1..NumChunks(total, chunk_size) |-> "pending"],
                    !.chunk_results =
                        [c \in 1..NumChunks(total, chunk_size) |-> <<>>],
                    !.partial_results =
                        [c \in 1..NumChunks(total, chunk_size) |-> NoResult],
                    !.prev = IF bd.pc = "returned"
                             THEN Some(bd.final_results) ELSE None]
    /\ windows' = {}
    /\ UNCHANGED <<hist, conv, schema, rows, file, reader_vars, env>>

\* read_channels when the file cannot be opened or mapped (reader.rs 13, 17):
\* `?` returns the error before any local of the decode exists, and main
\* returns it in turn (reader.rs 134)
BulkOpenFails(e) ==
    /\ bd.pc = "idle"
    /\ session = "none"
    /\ panicked = "none"
    /\ bd' = [BulkIdle EXCEPT !.pc = "failed", !.err = e]
    /\ windows' = {}
    /\ UNCHANGED <<hist, conv, schema, rows, file, reader_vars, panicked, env>>

\* the call of read_channels in main (reader.rs 134)
BulkStart(chunk_size, workers) ==
    /\ bd.pc = "idle"
    /\ BulkCall(chunk_size, workers)

\* a further decode of the same file, after one has returned; bd.prev keeps
\* the columns the earlier decode returned
BulkAgain(chunk_size, workers) ==
    /\ bd.pc = "returned"
    /\ BulkCall(chunk_size, workers)

Running == {c \in 1..Len(bd.task) : bd.task[c] = "running"}

\* a worker takes chunk c and allocates its mini-columns (reader.rs 49-65)
StartChunk(c) ==
    /\ bd.pc = "parallel"
    /\ panicked = "none"
    /\ bd.task[c] = "pending"
    /\ Cardinality(Running) < bd.workers
    /\ bd' = [bd EXCEPT !.task[c] = "running",
                        !.chunk_results[c] = NewBuffers(schema)]
    /\ UNCHANGED <<hist, conv, schema, rows, file, reader_vars, windows, panicked, env>>

\* the row loop of one chunk (reader.rs 68-89); st = [bufs, windows, panic]
RECURSIVE DecodeChunkRows(_, _, _, _, _, _, _)
DecodeChunkRows(m, rs, block_size, offset, left, num_channels, st) ==
    IF left = 0 \/ st.panic # "none" THEN st
    ELSE LET block_end == offset + block_size
             sl == Slice(m, offset, block_end)
             rv == ReadRowValues(Cursor_new(sl.bytes), st.bufs, 0,
                                 num_channels, <<>>)
             w == [kind |-> "block", lo |-> offset, hi |-> block_end,
                   used |-> IF sl.ok THEN rv.cur.pos ELSE 0,
                   reads |-> IF sl.ok THEN rv.reads ELSE <<>>]
         IN IF ~sl.ok
            THEN [st EXCEPT !.panic = "slice index out of range",
                            !.windows = @ \cup {w}]
            ELSE IF ~rv.ok
            THEN [st EXCEPT !.panic = "failed to fill whole buffer",
                            !.windows = @ \cup {w}]
            ELSE DecodeChunkRows(m, rs, block_size, offset + rs, left - 1,
                                 num_channels,
                                 [st EXCEPT !.bufs = rv.bufs,
                                            !.windows = @ \cup {w}])

\* faulty variant: the timestamp not skipped
ChunkOffsetNoSkip(start_row, rs) == start_row * rs

\* let mut offset = start_row * row_size + pre_skip;
ChunkOffset(start_row, rs) == start_row * rs + 8

\* the closure of the parallel map, applied to one chunk
DecodeChunk(m, rs, block_size, num_channels, bufs, start_row, end_row) ==
    DecodeChunkRows(m, rs, block_size, ChunkOffset(start_row, rs),
                    end_row - start_row, num_channels,
                    [bufs |-> bufs, windows |-> {}, panic |-> "none"])

\* faulty variant: the results kept in the order the chunks finished
CollectInCompletionOrder(partial, c, cols) ==
    LET free == {k \in 1..Len(partial) : ~partial[k].done}
        k == CHOOSE x \in free : \A y \in free : x <= y
    IN [partial EXCEPT ![k] = [done |-> TRUE, cols |-> cols]]

\* .collect(): the result of chunk c becomes element c of partial_results
Collect(partial, c, cols) ==
    [partial EXCEPT ![c] = [done |-> TRUE, cols |-> cols]]

\* faulty variant: one set of buffers shared by all the chunks
StoreChunkShared(results, c, bufs) == [d \in 1..Len(results) |-> bufs]

\* chunk_results is a local of the closure (reader.rs 52): the rows of chunk
\* c are pushed to the buffers of chunk c
StoreChunk(results, c, bufs) == [results EXCEPT ![c] = bufs]

\* the worker finishes chunk c
FinishChunk(c) ==
    /\ bd.pc = "parallel"
    /\ panicked = "none"
    /\ bd.task[c] = "running"
    /\ LET r == DecodeChunk(bd.mmap, bd.row_size, bd.block_size,
                            bd.num_channels, bd.chunk_results[c],
                            bd.chunks[c][1], bd.chunks[c][2])
       IN /\ windows' = r.windows
          /\ panicked' = r.panic
          /\ bd' = IF r.panic # "none" THEN bd
                   ELSE [bd EXCEPT
                           !.task[c] = "done",
                           !.chunk_results = StoreChunk(@, c, r.bufs),
                           !.order = Append(@, c),
                           !.partial_results = Collect(@, c, r.bufs)]
    /\ UNCHANGED <<hist, conv, schema, rows, file, reader_vars, env>>

\* faulty variant: the merge starts once the first chunk (if any) is done
FirstChunkDone(task) == task # <<>> => task[1] = "done"

\* .collect() of the parallel map returns when every closure has returned
AllChunksDone(task) == \A c \in 1..Len(task) : task[c] = "done"

\* the parallel map is over: allocate the final vectors (reader.rs 94-106)
BeginMerge ==
    /\ bd.pc = "parallel"
    /\ panicked = "none"
    /\ AllChunksDone(bd.task)
    /\ bd' = [bd EXCEPT !.pc = "merging",
                        !.final_results = NewBuffers(schema),
                        !.merged = 0]
    /\ windows' = {}
    /\ UNCHANGED <<hist, conv, schema, rows, file, reader_vars, panicked, env>>

\* one chunk_res of the merge loop (reader.rs 110-117)
MergeInto(final, chunk_res) ==
    [ok |-> \A i \in 1..Len(chunk_res) : final[i].tag = chunk_res[i].tag,
     bufs |-> [i \in 1..Len(final) |->
                  IF i <= Len(chunk_res) /\ final[i].tag = chunk_res[i].tag
                  THEN [final[i] EXCEPT !.vals = @ \o chunk_res[i].vals]
                  ELSE final[i]]]

\* for chunk_res in partial_results { .. } (reader.rs 109-118), one iteration
MergeChunk ==
    /\ bd.pc = "merging"
    /\ panicked = "none"
    /\ bd.merged < Len(bd.partial_results)
    /\ LET r == MergeInto(bd.final_results,
                          bd.partial_results[bd.merged + 1].cols)
       IN /\ panicked' = IF r.ok THEN "none" ELSE "Type mismatch during merge"
          /\ bd' = [bd EXCEPT !.final_results = r.bufs, !.merged = @ + 1]
    /\ UNCHANGED <<hist, conv, schema, rows, file, reader_vars, windows, env>>

\* Ok((final_results, io_duration, parse_duration)): the locals are dropped
BulkReturn ==
    /\ bd.pc = "merging"
    /\ panicked = "none"
    /\ bd.merged = Len(bd.partial_results)
    /\ bd' = [BulkIdle EXCEPT !.pc = "returned",
                              !.final_results = bd.final_results,
                              !.prev = bd.prev]
    /\ UNCHANGED <<hist, conv, schema, rows, file, reader_vars, windows, panicked, env>>

\* main of reader.rs after read_channels has returned (reader.rs 136-175):
\* let num_rows = channels_data[0].len(); and the report
ReaderMainReport ==
    /\ bd.pc = "returned"
    /\ session = "none"
    /\ panicked = "none"
    /\ LET n == FirstColumnLen(bd.final_results)
       IN /\ panicked' = IF n.ok THEN "none" ELSE "index out of bounds"
          /\ bd' = IF n.ok THEN [bd EXCEPT !.pc = "reported", !.num_rows = n.len]
                   ELSE bd
    /\ UNCHANGED <<hist, conv, schema, rows, file, reader_vars, windows, env>>

----------------------------------------------------------------------------
(* The converter: data_converter main.rs, main *)

Max(a, b) == IF a >= b THEN a ELSE b

\* the least memory_limit_mb whose product with 1024 * 1024 does not fit in
\* usize (2^12 for the 32-bit usize of the model, 2^44 for a 64-bit one)
OverflowMb == (ISIZE_MAX \div (512 * 1024)) + 1

\* the --memory-limit-mb arguments of the model: 0, 1, the default, and two
\* whose product with 1024 * 1024 overflows usize
MemoryLimits == {0, 1, 1024, OverflowMb, OverflowMb + 1}

\* args.memory_limit_mb * 1024 * 1024 overflows usize
MulOverflows(memory_limit_mb) == memory_limit_mb >= OverflowMb

\* let target_batch_mem_bytes = (args.memory_limit_mb * 1024 * 1024) / 2;
\* with the product wrapped to the width of usize, as a build without
\* overflow checks computes it: (m * 2^20 mod 2^w) / 2 = (m mod 2^(w-20)) * 2^19
TargetBatchMemBytes(memory_limit_mb) ==
    (memory_limit_mb % OverflowMb) * (512 * 1024)

\* let batch_size = std::cmp::max(1, target_batch_mem_bytes / row_size_bytes);
ConvBatchSize(memory_limit_mb, row_size_bytes) ==
    Max(1, TargetBatchMemBytes(memory_limit_mb) \div row_size_bytes)

\* main from the reader's construction to the loop (main.rs 43-81); the
\* reader was built by BatchReader::new. When the product overflows, a build
\* with overflow checks (the default of a debug build) panics, and a build
\* without them (the default of a release build) goes on with the wrapped
\* product.
ConvSetup(memory_limit_mb, overflow_checks) ==
    /\ conv.pc = "idle"
    /\ session = "ready"
    /\ panicked = "none"
    /\ ret.op = "new"
    /\ IF MulOverflows(memory_limit_mb) /\ overflow_checks
       THEN /\ panicked' = "attempt to multiply with overflow"
            /\ conv' = [ConvIdle EXCEPT
                          !.memory_limit_mb = memory_limit_mb,
                          !.total_rows = total_rows]
       ELSE /\ panicked' = panicked
            /\ conv' = [ConvIdle EXCEPT
                          !.pc = "loop",
                          !.memory_limit_mb = memory_limit_mb,
                          !.total_rows = total_rows,
                          !.batch_size = ConvBatchSize(memory_limit_mb,
                                                       Schema_row_size(schema)),
                          !.processed_rows = 0]
    /\ UNCHANGED <<hist, schema, rows, file, reader_vars, windows, bd, env>>

\* while let Some(channels_data) = reader.read_batch(batch_size) {
\*     let current_batch_size = channels_data[0].len();
\*     if current_batch_size == 0 { break; }
\* (main.rs 83-87); after the loop, writer.close() (main.rs 119)
ConvReadBatch ==
    /\ conv.pc = "loop"
    /\ panicked = "none"
    /\ LET r == read_batch(mmap, schema, row_size, total_rows, current_row,
                           conv.batch_size)
           cols == r.value.cols
       IN /\ current_row' = r.current_row
          /\ ret' = [NoCall EXCEPT !.op = "read_batch", !.a = conv.batch_size,
                                   !.start = current_row, !.batch = r.value]
          /\ acc' = IF r.value.some THEN Extend(acc, cols) ELSE acc
          /\ windows' = r.windows
          /\ panicked' = IF r.panic # "none" THEN r.panic
                         ELSE IF r.value.some /\ ~FirstColumnLen(cols).ok
                         THEN "index out of bounds"
                         ELSE "none"
          /\ conv' = IF r.panic # "none"
                          \/ (r.value.some /\ ~FirstColumnLen(cols).ok)
                     THEN conv
                     ELSE IF ~r.value.some \/ FirstColumnLen(cols).len = 0
                     THEN [conv EXCEPT !.pc = "done", !.channels_data = <<>>,
                                       !.timestamps = <<>>]
                     ELSE [conv EXCEPT !.pc = "batch", !.channels_data = cols,
                                       !.timestamps = <<>>]
    /\ UNCHANGED <<hist, schema, rows, file, session, mmap, row_size, total_rows,
                   bd, env>>

\* faulty variant: the batch size added, not the length of the batch
AdvanceProcessedByBatchSize(processed_rows, current_batch_size, batch_size) ==
    processed_rows + batch_size

\* processed_rows += current_batch_size;
AdvanceProcessed(processed_rows, current_batch_size, batch_size) ==
    processed_rows + current_batch_size

\* the rest of the loop body (main.rs 90-116): the timestamps of the batch
\* are read, the timestamp column and the channel columns are written as one
\* row group, and processed_rows advances
ConvWriteBatch ==
    /\ conv.pc = "batch"
    /\ panicked = "none"
    /\ LET current_batch_size == ChannelData_len(conv.channels_data[1])
           r == read_timestamps(mmap, row_size, total_rows,
                                conv.processed_rows, current_batch_size)
       IN /\ ret' = [NoCall EXCEPT !.op = "read_timestamps",
                                   !.a = conv.processed_rows,
                                   !.b = current_batch_size, !.ts = r.ts]
          /\ windows' = r.windows
          /\ panicked' = r.panic
          /\ conv' = IF r.panic # "none" THEN conv
                     ELSE [conv EXCEPT
                             !.pc = "loop",
                             !.timestamps = r.ts,
                             !.written =
                                 Append(@, [timestamps |-> r.ts,
                                            columns |-> conv.channels_data]),
                             !.processed_rows =
                                 AdvanceProcessed(@, current_batch_size,
                                                  conv.batch_size)]
    /\ UNCHANGED <<hist, schema, rows, file, session, mmap, row_size, total_rows,
                   current_row, acc, bd, env>>

----------------------------------------------------------------------------
(* Specifications *)

\* the number of complete rows of the file
FileRows == Len(file) \div (8 + SumSizes(schema))

\* one bulk decode of the file (reader.rs main), then a reader session on the
\* same file (data_converter main): construction, then any sequence of calls
Next ==
    \/ \E chunk_size \in ChunkSizes(FileRows), workers \in 1..MaxWorkers :
           BulkStart(chunk_size, workers)
    \/ \E c \in 1..Len(bd.task) : StartChunk(c)
    \/ \E c \in 1..Len(bd.task) : FinishChunk(c)
    \/ BeginMerge
    \/ MergeChunk
    \/ BulkReturn
    \/ (bd.pc = "returned" /\ BatchReader_new)
    \/ \E batch_size \in BatchSizes : ReadBatch(batch_size)
    \/ \E start_row \in StartRows, count \in Counts :
           ReadTimestamps(start_row, count)
    \/ TotalRows

Spec == Init /\ [][Next]_vars

\* bulk decodes of the same file, one after the other, with any chunk sizes
NextBulk ==
    \/ \E chunk_size \in ChunkSizes(FileRows), workers \in 1..MaxWorkers :
           BulkStart(chunk_size, workers)
    \/ \E chunk_size \in ChunkSizes(FileRows), workers \in 1..MaxWorkers :
           BulkAgain(chunk_size, workers)
    \/ \E c \in 1..Len(bd.task) : StartChunk(c)
    \/ \E c \in 1..Len(bd.task) : FinishChunk(c)
    \/ BeginMerge
    \/ MergeChunk
    \/ BulkReturn

SpecBulk == Init /\ [][NextBulk]_vars

\* a session on the file, bytes appended to the file, a second session
NextAppend ==
    \/ BatchReader_new
    \/ BatchReader_drop
    \/ \E k \in 1..(Schema_row_size(schema) - 1) : AppendBytes(k)
    \/ TotalRows

SpecAppend == Init /\ [][NextAppend]_vars

\* the two programs on a file that may fail to open or to map: the bulk
\* decode with the chunk size of the code, then the reader
NextFault ==
    \/ \E e \in OpenErrors : BulkOpenFails(e)
    \/ \E workers \in 1..MaxWorkers : BulkStart(CHUNK_SIZE, workers)
    \/ \E c \in 1..Len(bd.task) : StartChunk(c)
    \/ \E c \in 1..Len(bd.task) : FinishChunk(c)
    \/ BeginMerge
    \/ MergeChunk
    \/ BulkReturn
    \/ \E e \in OpenErrors \cup {"none"} :
           bd.pc \in {"returned", "failed"} /\ BatchReader_try_new(e)
    \/ \E batch_size \in BatchSizes : ReadBatch(batch_size)
    \/ \E count \in {1, total_rows + 5} : ReadTimestamps(current_row, count)
    \/ TotalRows

SpecFault == Init /\ [][NextFault]_vars

\* the batch sizes of a session that calls read_batch until it returns
\* None: all of them at least 1
StreamSizes == {1, 2, 3, total_rows + 5}

\* a reader, and read_batch called on it again and again
NextStream ==
    \/ BatchReader_new
    \/ \E batch_size \in StreamSizes : StreamReadBatch(batch_size)

SpecStream == Init /\ [][NextStream]_vars

\* a reader, and up to MaxCalls batches returned by read_batch, with batch
\* sizes that include 0
NextZero ==
    \/ BatchReader_new
    \/ \E batch_size \in {0, 1, 2} :
           Len(hist) < MaxCalls /\ StreamReadBatch(batch_size)

SpecZero == Init /\ [][NextZero]_vars

\* one of the two programs run on the file: the reader binary (read_channels
\* and the report) or the converter
NextPrograms ==
    \/ \E workers \in 1..MaxWorkers :
           conv.pc = "idle" /\ BulkStart(CHUNK_SIZE, workers)
    \/ \E c \in 1..Len(bd.task) : StartChunk(c)
    \/ \E c \in 1..Len(bd.task) : FinishChunk(c)
    \/ BeginMerge
    \/ MergeChunk
    \/ BulkReturn
    \/ ReaderMainReport
    \/ (bd.pc = "idle" /\ BatchReader_new)
    \/ \E memory_limit_mb \in MemoryLimits, overflow_checks \in BOOLEAN :
           ConvSetup(memory_limit_mb, overflow_checks)
    \/ ConvReadBatch
    \/ ConvWriteBatch

SpecPrograms == Init /\ [][NextPrograms]_vars

\* one run of the converter on the file, with any memory limit
NextConv ==
    \/ BatchReader_new
    \/ \E memory_limit_mb \in MemoryLimits, overflow_checks \in BOOLEAN :
           ConvSetup(memory_limit_mb, overflow_checks)
    \/ ConvReadBatch
    \/ ConvWriteBatch

SpecConv == Init /\ [][NextConv]_vars

----------------------------------------------------------------------------
(* What the claims are stated with: the written rows, column by column,    *)
(* and the row layout as the specification states it                       *)

\* channel i of the written rows lo .. hi-1 (0-based), in row order
ColumnOf(rs, i, lo, hi) == [j \in 1..(hi - lo) |-> rs[lo + j].vals[i]]

\* the timestamps of the written rows lo .. hi-1 (0-based), in row order
TimestampsOf(rs, lo, hi) == [j \in 1..(hi - lo) |-> rs[lo + j].ts]

Width(t) == IF t = "Bit" THEN 1 ELSE IF t = "Int" THEN 4 ELSE 8

RECURSIVE Widths(_)
Widths(channels) ==
    IF channels = <<>> THEN 0 ELSE Width(Head(channels)) + Widths(Tail(channels))

\* R: 8 bytes of timestamp and the channels' widths
R == 8 + Widths(schema)

\* floor(L / R) for the file as it is now
FloorRows == Len(file) \div R

ExhaustedReader == session = "ready" /\ current_row >= total_rows

MergeComplete == bd.pc = "merging" /\ bd.merged = Len(bd.partial_results)

\* per channel, the buffers of the chunks c .. n in chunk index order
RECURSIVE ConcatChunks(_, _, _)
ConcatChunks(results, i, c) ==
    IF c > Len(results) THEN <<>>
    ELSE results[c][i].vals \o ConcatChunks(results, i, c + 1)

----------------------------------------------------------------------------
(* C1 .. C10 *)

\* C1: a read_batch(n) that starts at a cursor c below total_rows returns a
\* batch of one column per schema channel, each holding exactly
\* k = min(n, total_rows - c) values, the values of the rows c .. c+k-1 in
\* file order, and leaves the cursor at c + k.
C1_ReadBatchContract ==
    (ret.op = "read_batch" /\ ret.start < total_rows) =>
        LET c == ret.start
            k == Min(ret.a, total_rows - c)
        IN /\ panicked = "none"
           /\ ret.batch.some
           /\ Len(ret.batch.cols) = Len(schema)
           /\ \A i \in 1..Len(schema) :
                  /\ Len(ret.batch.cols[i].vals) = k
                  /\ ret.batch.cols[i].vals = ColumnOf(rows, i, c, c + k)
           /\ current_row = c + k

\* a clipped batch of two rows that started in the middle of the file
C1_Witness ==
    /\ ret.op = "read_batch"
    /\ ret.start = 1
    /\ total_rows = 3
    /\ ret.a = total_rows + 5
    /\ current_row = 3
    /\ Len(schema) >= 2
    /\ Len(ret.batch.cols[1].vals) = 2

\* C2: once the cursor has reached total_rows, every read_batch call, with
\* any batch size, returns None, panics nowhere and leaves the cursor and
\* every other field of the reader as they were.
C2_TerminalIdempotence ==
    [][\A n \in BatchSizes :
          (session = "ready" /\ current_row >= total_rows /\ ReadBatch(n)) =>
              /\ ~ret'.batch.some
              /\ panicked' = "none"
              /\ current_row' = current_row
              /\ UNCHANGED <<session, mmap, row_size, total_rows, schema>>]_vars

\* a read_batch on an exhausted reader of a file with rows has returned
C2_Witness ==
    /\ ret.op = "read_batch"
    /\ ret.start >= total_rows
    /\ total_rows = 3
    /\ ret.a = 3
    /\ ~ret.batch.some

\* C3: when the reader is exhausted, the batches it returned, concatenated
\* per channel, are exactly the column buffers the Bulk Decoder returned for
\* the same file and schema, whatever the batch sizes were.
C3_BatchSizeIndependence ==
    (ExhaustedReader /\ bd.pc = "returned") =>
        /\ Len(acc) = Len(bd.final_results)
        /\ \A i \in 1..Len(acc) : acc[i] = bd.final_results[i].vals
        /\ (ret.op = "read_batch" /\ ret.batch.some) =>
               \A i \in 1..Len(acc) :
                   ret.batch.cols[i].tag = bd.final_results[i].tag

\* exhaustion by batches of sizes 1 and then total_rows + 5
C3_Witness ==
    /\ ExhaustedReader
    /\ bd.pc = "returned"
    /\ total_rows = 3
    /\ ret.op = "read_batch"
    /\ ret.start = 1
    /\ ret.a = total_rows + 5
    /\ Len(acc) = 3
    /\ Len(acc[3]) = 3

C5_ChunkIndexOrder ==
    MergeComplete =>
        /\ Len(bd.final_results) = Len(schema)
        /\ \A i \in 1..Len(schema) :
               /\ bd.final_results[i].vals = ConcatChunks(bd.chunk_results, i, 1)
               /\ bd.final_results[i].vals = ColumnOf(rows, i, 0, bd.total_rows)

\* three chunks on two workers, the last chunk finished first
C5_Witness ==
    /\ MergeComplete
    /\ Len(bd.order) = 3
    /\ bd.order[1] = 3
    /\ bd.workers = 2
    /\ Len(schema) >= 1

\* C6: the reader and the Bulk Decoder both use total_rows = floor(L / R),
\* and total_rows() returns that value at every point of the session.
C6_RowCount ==
    /\ session = "ready" => (row_size = R /\ total_rows = FloorRows)
    /\ ret.op = "total_rows" => ret.n = FloorRows
    /\ bd.pc \in {"parallel", "merging"} =>
           (bd.row_size = R /\ bd.total_rows = FloorRows)

\* total_rows() in the middle of a session on a file with a partial row
C6_Witness ==
    /\ ret.op = "total_rows"
    /\ ret.n = 3
    /\ current_row = 2
    /\ Len(file) % R # 0

\* C7 as stated: for a file of any length L, k appended bytes with
\* 1 <= k <= R-1 leave total_rows as it was.
C7_AppendNeverChangesRows ==
    (session = "ready" /\ env.appended >= 1) => total_rows = env.base_rows

\* C7, amended: k appended bytes leave total_rows as it was for every k with
\* 1 <= k <= R-1 - (L mod R); for a file of whole rows that is every k in
\* 1 .. R-1.
C7_AppendWithinRow ==
    (session = "ready" /\ env.appended >= 1
         /\ (env.base_len % R) + env.appended < R) =>
        total_rows = env.base_rows

\* R-1 bytes appended to a file of whole rows, and a new session on it
C7_Witness ==
    /\ session = "ready"
    /\ env.appended = R - 1
    /\ env.base_len > 0
    /\ env.base_len % R = 0
    /\ Len(file) = env.base_len + env.appended

\* C8 as stated: read_timestamps(startRow, count) never fails, and returns
\* the timestamps of the rows startRow .. min(startRow + count, total_rows)-1
\* in row order (none when startRow >= total_rows).
C8_ReadTimestampsContract ==
    ret.op = "read_timestamps" =>
        /\ panicked = "none"
        /\ ret.ts = TimestampsOf(rows, Min(ret.a, total_rows),
                                 Min(ret.a + ret.b, total_rows))

\* C9: the decoders return exactly the written values: the Bulk Decoder's
\* final buffers, and the reader's batches once it is exhausted, hold per
\* channel the values of all the written rows, in order; the encoder wrote
\* R bytes per row.
C9_RoundTrip ==
    /\ Len(rows) * R <= Len(file)
    /\ Len(file) < (Len(rows) + 1) * R
    /\ (bd.pc = "returned" \/ MergeComplete) =>
           /\ Len(bd.final_results) = Len(schema)
           /\ \A i \in 1..Len(schema) :
                  bd.final_results[i].vals = ColumnOf(rows, i, 0, Len(rows))
    /\ ExhaustedReader =>
           /\ Len(acc) = Len(schema)
           /\ \A i \in 1..Len(schema) : acc[i] = ColumnOf(rows, i, 0, Len(rows))

\* the scenario of the specification: [bit, int, float], rows of 21 bytes,
\* row 0 = (1000.0, 1, -5, 2.5), decoded by both decoders
C9_Witness ==
    /\ ExhaustedReader
    /\ bd.pc = "returned"
    /\ schema = ScenarioSchema
    /\ Len(file) = 63
    /\ acc[1][1] = 1
    /\ acc[2][1] = -5
    /\ acc[3][1] = <<64, 4, 0, 0, 0, 0, 0, 0>>
    /\ bd.final_results[2].vals[3] = 0

\* the end of the complete rows, as the decoder at work computed it
RowsEnd ==
    IF session = "ready" THEN total_rows * row_size
    ELSE bd.total_rows * bd.row_size

\* C10: no slice of the map and no cursor read ever fails, every window
\* sliced lies inside [0, total_rows * row_size), which lies inside the file,
\* and the reads made in a window stay inside it.
C10_BoundsSafety ==
    /\ panicked \notin {"slice index out of range",
                        "failed to fill whole buffer"}
    /\ RowsEnd <= Len(file)
    /\ \A w \in windows :
           /\ 0 <= w.lo
           /\ w.lo <= w.hi
           /\ w.hi <= RowsEnd
           /\ w.used <= w.hi - w.lo

\* a batch of three rows read up to the last complete row of a file that
\* ends with a partial row
C10_Witness ==
    /\ ret.op = "read_batch"
    /\ Cardinality(windows) = 3
    /\ \E w \in windows : w.hi = total_rows * row_size /\ w.used = row_size
    /\ Len(mmap) > total_rows * row_size

----------------------------------------------------------------------------
(* C11 .. C20 *)

\* C11: in every state of a session the cursor satisfies
\* 0 <= cursor <= total_rows, and no step of read_batch, read_timestamps or
\* total_rows leaves it smaller than it was.
C11_CursorMonotone ==
    [][session' = "ready" =>
          /\ 0 <= current_row'
          /\ current_row' <= total_rows'
          /\ session = "ready" => current_row' >= current_row]_vars

\* the cursor moved from 0 to 1 and then, by a batch of 2, to total_rows
C11_Witness ==
    /\ session = "ready"
    /\ ret.op = "read_batch"
    /\ ret.a = 2
    /\ ret.start = 1
    /\ current_row = 3
    /\ total_rows = 3

\* one buffer per channel of the schema, each with the channel's tag
TagsMatchSchema(bufs) ==
    /\ Len(bufs) = Len(schema)
    /\ \A i \in 1..Len(schema) : bufs[i].tag = schema[i]

\* C12: every column buffer of channel i carries the tag the schema declares
\* for channel i: the buffers of a chunk at work, the collected chunk
\* results, the final buffers and every batch of the reader; the merge never
\* meets two different tags and never panics with "Type mismatch during
\* merge".
C12_TagsMatchSchema ==
    /\ panicked # "Type mismatch during merge"
    /\ \A c \in 1..Len(bd.task) :
           /\ bd.task[c] # "pending" => TagsMatchSchema(bd.chunk_results[c])
           /\ bd.partial_results[c].done =>
                  TagsMatchSchema(bd.partial_results[c].cols)
    /\ bd.pc \in {"merging", "returned"} => TagsMatchSchema(bd.final_results)
    /\ bd.pc = "merging" =>
           \A c \in 1..Len(bd.partial_results) :
               MergeInto(bd.final_results, bd.partial_results[c].cols).ok
    /\ (ret.op = "read_batch" /\ ret.batch.some) =>
           TagsMatchSchema(ret.batch.cols)

\* two chunks of a [float, bit] file merged into the final buffers
C12_Witness ==
    /\ bd.pc = "merging"
    /\ bd.merged = 2
    /\ schema = <<"Float", "Bit">>
    /\ bd.final_results[1].tag = "Float"
    /\ bd.final_results[2].tag = "Bit"
    /\ Len(bd.final_results[2].vals) = 2

\* the file without the bytes of its trailing partial row, and its rows
TrimmedFile == SubSeq(file, 1, Len(file) - (Len(file) % R))

TrimmedRows == Len(TrimmedFile) \div R

\* C13: for a file that ends with a partial row, no call of either decoder
\* fails on a slice or a read, and every call returns what the same call
\* returns on the file without the trailing bytes: the same batches, cursor,
\* timestamps and final column buffers; no window sliced from the map reaches
\* into the partial row.
C13_TruncationIgnored ==
    Len(file) % R # 0 =>
        /\ panicked \notin {"slice index out of range",
                            "failed to fill whole buffer"}
        /\ session = "ready" => total_rows = TrimmedRows
        /\ bd.pc \in {"parallel", "merging"} => bd.total_rows = TrimmedRows
        /\ ret.op = "read_batch" =>
               LET r == read_batch(TrimmedFile, schema, R, TrimmedRows,
                                   ret.start, ret.a)
               IN /\ ret.batch = r.value
                  /\ current_row = r.current_row
                  /\ panicked = r.panic
        /\ ret.op = "read_timestamps" =>
               LET r == read_timestamps(TrimmedFile, R, TrimmedRows,
                                        ret.a, ret.b)
               IN /\ ret.ts = r.ts
                  /\ panicked = r.panic
        /\ (MergeComplete \/ bd.pc = "returned") =>
               bd.final_results =
                   DecodeChunk(TrimmedFile, R, R - 8, Len(schema),
                               NewBuffers(schema), 0, TrimmedRows).bufs
        /\ \A w \in windows : w.hi <= Len(TrimmedFile)

\* a file of three rows and one more byte, decoded by the Bulk Decoder and
\* read to the end by the reader, its three timestamps read last
C13_Witness ==
    /\ Len(file) % R = 1
    /\ bd.pc = "returned"
    /\ ExhaustedReader
    /\ total_rows = 3
    /\ Len(schema) >= 2
    /\ Len(acc[1]) = 3
    /\ ret.op = "read_timestamps"
    /\ Len(ret.ts) = 3
    /\ Len(bd.final_results[1].vals) = 3

\* C14: when the file cannot be opened or mapped, BatchReader::new returns
\* the error and no reader exists: no map, no batch, and no call on a reader
\* follows; the Bulk Decoder returns the error with no chunk listed, started
\* or decoded and no column buffer built; neither is called a second time.
C14_ResourceErrorsFirst ==
    /\ [](ret.err # "none" =>
             /\ ret.err \in OpenErrors
             /\ ret.op = "new"
             /\ session = "none"
             /\ mmap = <<>>
             /\ acc = <<>>
             /\ windows = {})
    /\ [](bd.pc = "failed" =>
             /\ bd.err \in OpenErrors
             /\ bd = [BulkIdle EXCEPT !.pc = "failed", !.err = bd.err])
    /\ [][/\ ret.err # "none" => UNCHANGED reader_vars
          /\ bd.pc = "failed" => bd' = bd
          /\ (ret.err # "none" /\ bd.pc = "failed") => UNCHANGED vars]_vars

\* the bulk decode of a file with rows returned, then BatchReader::new on the
\* same file failed to map it
C14_Witness ==
    /\ ret.op = "new"
    /\ ret.err = "map failed"
    /\ session = "none"
    /\ bd.pc = "returned"
    /\ Len(file) > 0
    /\ Len(schema) >= 2

\* the offset of channel i (1-based) in its row: the timestamp and the
\* widths of the channels before it
ChannelOffset(i) == 8 + Widths(SubSeq(schema, 1, i - 1))

\* the window w holds, for every channel i, one read of the channel's width
\* at byte r * R + ChannelOffset(i) of the file
ReadsRowAt(w, r) ==
    /\ Len(w.reads) = Len(schema)
    /\ \A i \in 1..Len(schema) :
           /\ w.lo + w.reads[i].lo = r * R + ChannelOffset(i)
           /\ w.reads[i].hi - w.reads[i].lo = Width(schema[i])

\* the rows the last operation decoded: [lo, hi)
DecodedRows ==
    IF ret.op = "read_batch" /\ session = "ready"
    THEN <<ret.start, current_row>>
    ELSE IF bd.pc = "parallel" /\ bd.order # <<>> /\ windows # {}
    THEN bd.chunks[bd.order[Len(bd.order)]]
    ELSE <<0, 0>>

\* C15: row_size = 8 + the sum of the channel widths (21 for
\* [bit, int, float]); the reader slices row r at byte r * row_size, and both
\* decoders read channel i of every row r they decode at byte
\* r * row_size + 8 + (widths of the channels before i), with the width of
\* channel i.
C15_RowLayout ==
    /\ session = "ready" => row_size = R
    /\ bd.pc \in {"parallel", "merging"} =>
           (bd.row_size = R /\ bd.block_size = R - 8)
    /\ schema = ScenarioSchema => R = 21
    /\ panicked = "none" =>
           /\ \A w \in windows :
                  /\ w.kind = "row" =>
                         (w.lo % R = 0 /\ w.hi = w.lo + R
                              /\ ReadsRowAt(w, w.lo \div R))
                  /\ w.kind = "block" =>
                         ((w.lo - 8) % R = 0 /\ w.hi = w.lo + R - 8
                              /\ ReadsRowAt(w, (w.lo - 8) \div R))
           /\ \A r \in DecodedRows[1]..(DecodedRows[2] - 1) :
                  \E w \in windows :
                      \/ w.kind = "row" /\ w.lo = r * R
                      \/ w.kind = "block" /\ w.lo = r * R + 8

\* the reader decoded row 2 of a [bit, int, float] file: the float at byte
\* 42 + 8 + 1 + 4 = 55
C15_Witness ==
    /\ schema = ScenarioSchema
    /\ session = "ready"
    /\ row_size = 21
    /\ ret.op = "read_batch"
    /\ \E w \in windows :
           /\ w.kind = "row"
           /\ w.lo = 42
           /\ w.reads[3] = [lo |-> 13, hi |-> 21]

\* the row group the converter wrote last
LastWritten == conv.written[Len(conv.written)]

\* the rows the converter had written before the last row group
WrittenBefore == conv.processed_rows - Len(LastWritten.timestamps)

\* C16: for a schema with at least one channel, the loop of the converter
\* never fails; whenever it is about to call read_batch, processed_rows is the reader's
\* cursor; and the timestamps it reads for a batch are as many as the
\* values of every column of the batch and are the timestamps of the rows of
\* the batch, index by index.
C16_TimestampsAligned ==
    Len(schema) >= 1 =>
        /\ conv.pc \in {"loop", "batch", "done"} => panicked = "none"
        /\ conv.pc = "loop" => conv.processed_rows = current_row
        /\ conv.pc = "batch" =>
               /\ conv.processed_rows = ret.start
               /\ \A i \in 1..Len(schema) :
                      conv.processed_rows + Len(conv.channels_data[i].vals)
                          = current_row
        /\ (conv.pc = "loop" /\ conv.written # <<>>) =>
               /\ Len(LastWritten.columns) = Len(schema)
               /\ \A i \in 1..Len(schema) :
                      /\ Len(LastWritten.columns[i].vals)
                             = Len(LastWritten.timestamps)
                      /\ LastWritten.columns[i].vals
                             = ColumnOf(rows, i, WrittenBefore,
                                        conv.processed_rows)
               /\ LastWritten.timestamps
                      = TimestampsOf(rows, WrittenBefore, conv.processed_rows)

\* the third row group of one row each, written from a file of three rows
C16_Witness ==
    /\ conv.pc = "loop"
    /\ Len(conv.written) = 3
    /\ conv.batch_size = 1
    /\ conv.processed_rows = 3
    /\ Len(schema) >= 2
    /\ LastWritten.timestamps = <<KnownTs(2)>>

\* ceil(a / b) for b >= 1: the least n with n * b >= a
CeilDiv(a, b) == CHOOSE n \in 0..a : n * b >= a /\ (n = 0 \/ (n - 1) * b < a)

\* the chunks that hold row r
ChunksWith(r) ==
    {c \in 1..Len(bd.chunks) : bd.chunks[c][1] <= r /\ r < bd.chunks[c][2]}

\* C17: while the Bulk Decoder is at work its chunk list has
\* ceil(total_rows / chunk_size) chunks, chunk i (0-based) is
\* [i * chunk_size, min((i+1) * chunk_size, total_rows)), no chunk is empty,
\* only the last may be shorter than chunk_size, and every row of
\* [0, total_rows) lies in exactly one chunk and no chunk reaches outside;
\* a file without a complete row gives no chunk and one empty buffer per
\* channel, with the channel's tag.
C17_ChunksPartitionRows ==
    /\ bd.pc \in {"parallel", "merging"} =>
           /\ bd.chunk_size >= 1
           /\ Len(bd.chunks) = CeilDiv(bd.total_rows, bd.chunk_size)
           /\ \A c \in 1..Len(bd.chunks) :
                  /\ bd.chunks[c][1] = (c - 1) * bd.chunk_size
                  /\ bd.chunks[c][2] = Min(c * bd.chunk_size, bd.total_rows)
                  /\ bd.chunks[c][1] < bd.chunks[c][2]
                  /\ bd.chunks[c][2] <= bd.total_rows
                  /\ c < Len(bd.chunks) =>
                         bd.chunks[c][2] - bd.chunks[c][1] = bd.chunk_size
                  /\ bd.chunks[c][2] - bd.chunks[c][1] <= bd.chunk_size
           /\ \A r \in 0..(bd.total_rows - 1) : Cardinality(ChunksWith(r)) = 1
           /\ bd.total_rows = 0 => bd.chunks = <<>>
    /\ ((MergeComplete \/ bd.pc = "returned") /\ FloorRows = 0) =>
           /\ Len(bd.final_results) = Len(schema)
           /\ \A i \in 1..Len(schema) :
                  bd.final_results[i] = [tag |-> schema[i], vals |-> <<>>]

\* three rows in chunks of two: [0, 2) and the shorter [2, 3)
C17_Witness ==
    /\ bd.pc = "parallel"
    /\ bd.chunk_size = 2
    /\ bd.total_rows = 3
    /\ bd.chunks = << <<0, 2>>, <<2, 3>> >>
    /\ bd.task = <<"pending", "pending">>

\* C18: the merge does not start before every chunk decode has completed and
\* been collected: while any chunk is pending or running no final buffer
\* exists, during the merge every chunk is done, and the buffers returned to
\* the caller hold all total_rows rows.
C18_JoinBarrier ==
    /\ (\E c \in 1..Len(bd.task) : bd.task[c] # "done") =>
           (bd.pc = "parallel" /\ bd.final_results = <<>> /\ bd.merged = 0)
    /\ bd.pc = "merging" =>
           \A c \in 1..Len(bd.task) :
               /\ bd.task[c] = "done"
               /\ bd.partial_results[c].done
               /\ bd.partial_results[c].cols = bd.chunk_results[c]
    /\ (MergeComplete \/ bd.pc = "returned") =>
           \A i \in 1..Len(bd.final_results) :
               Len(bd.final_results[i].vals) = FloorRows

\* the first of three chunks merged; the chunks had finished on two workers
\* in the order 2, 1, 3
C18_Witness ==
    /\ bd.pc = "merging"
    /\ bd.merged = 1
    /\ bd.workers = 2
    /\ bd.order = <<2, 1, 3>>
    /\ Len(schema) >= 1
    /\ Len(bd.final_results[1].vals) = 1

\* the fields of the Bulk Decoder that are fixed once it is at work
BulkFixed(b) ==
    <<b.mmap, b.row_size, b.block_size, b.total_rows, b.num_channels,
      b.chunk_size, b.chunks>>

\* C19: no step of either decoder changes the file, the schema, the mapped
\* bytes, row_size or total_rows; a read_timestamps or total_rows call leaves
\* the cursor where it was; and in the parallel phase a step of one chunk task
\* changes the buffers of that chunk alone: the buffers and the collected
\* result of every other chunk stay as they were, and there is no final
\* buffer to write to.
C19_Frame ==
    [][/\ UNCHANGED <<file, schema>>
       /\ (session = "ready" /\ session' = "ready") =>
              UNCHANGED <<mmap, row_size, total_rows>>
       /\ session' = "ready" => mmap' = file'
       /\ (bd.pc \in {"parallel", "merging"}
               /\ bd'.pc \in {"parallel", "merging"}) =>
              (BulkFixed(bd') = BulkFixed(bd) /\ bd'.mmap = file')
       /\ ret'.op \in {"read_timestamps", "total_rows"} =>
              current_row' = current_row
       /\ (bd.pc = "parallel" /\ bd'.pc = "parallel") =>
              /\ bd'.final_results = <<>>
              /\ Cardinality({c \in 1..Len(bd.task) :
                                 bd'.task[c] # bd.task[c]}) <= 1
              /\ \A d \in 1..Len(bd.task) :
                     bd'.task[d] = bd.task[d] =>
                         /\ bd'.chunk_results[d] = bd.chunk_results[d]
                         /\ bd'.partial_results[d] = bd.partial_results[d]]_vars

\* chunk 2 of three has been decoded into its own buffers while chunk 1 is
\* running, its buffers still empty, and chunk 3 has none yet
C19_Witness ==
    /\ bd.pc = "parallel"
    /\ bd.task = <<"running", "done", "pending">>
    /\ Len(schema) >= 1
    /\ bd.chunk_results[1] = NewBuffers(schema)
    /\ Len(bd.chunk_results[2][1].vals) = 1
    /\ bd.chunk_results[3] = <<>>

\* read_batch has returned None
ReturnedNone == ret.op = "read_batch" /\ ~ret.batch.some

\* C20: in a session where read_batch is called again and again with batch
\* sizes that are all >= 1, no call fails, every batch returned consumed at
\* least one row, so that the batches returned are never more than
\* total_rows and of any total_rows + 1 calls one returns None; None is
\* returned exactly by the calls made with the cursor at total_rows; when all
\* the batches had the same size b, they were ceil(total_rows / b); a reader
\* of a file without a complete row returns no batch at all.
C20_StreamingTerminates ==
    /\ panicked = "none"
    /\ \A j \in 1..Len(hist) : hist[j] >= 1
    /\ session = "ready" =>
           /\ Len(hist) <= current_row
           /\ current_row <= total_rows
           /\ Len(hist) <= total_rows
           /\ ret.op = "read_batch" =>
                  (ReturnedNone <=> ret.start >= total_rows)
           /\ ReturnedNone => current_row = total_rows
           /\ total_rows = 0 => hist = <<>>
           /\ \A b \in StreamSizes :
                  (current_row = total_rows
                       /\ \A j \in 1..Len(hist) : hist[j] = b) =>
                      Len(hist) = CeilDiv(total_rows, b)

\* two batches of size 2 from a file of three rows, then None
C20_Witness ==
    /\ ReturnedNone
    /\ hist = <<2, 2>>
    /\ total_rows = 3
    /\ current_row = 3
    /\ Len(schema) >= 1
    /\ Len(acc[1]) = 3

\* channel i of all the row groups the converter wrote, from group g on
RECURSIVE WrittenColumn(_, _)
WrittenColumn(i, g) ==
    IF g > Len(conv.written) THEN <<>>
    ELSE conv.written[g].columns[i].vals \o WrittenColumn(i, g + 1)

\* the timestamps of all the row groups the converter wrote, from group g on
RECURSIVE WrittenTimestamps(_)
WrittenTimestamps(g) ==
    IF g > Len(conv.written) THEN <<>>
    ELSE conv.written[g].timestamps \o WrittenTimestamps(g + 1)

\* C21 as stated: for a schema with at least one channel and every memory
\* limit, the converter does not fail, its batch size is at least 1, its
\* loop writes at most total_rows row groups before it exits, and at the
\* exit processed_rows = total_rows and the row groups written hold every
\* complete row of the file once, in file order.
C21_ConverterCompletes ==
    Len(schema) >= 1 =>
        /\ panicked = "none"
        /\ conv.pc \in {"loop", "batch", "done"} => conv.batch_size >= 1
        /\ Len(conv.written) <= conv.total_rows
        /\ conv.pc = "done" =>
               /\ conv.total_rows = FloorRows
               /\ conv.processed_rows = conv.total_rows
               /\ current_row = total_rows
               /\ WrittenTimestamps(1) = TimestampsOf(rows, 0, FloorRows)
               /\ \A i \in 1..Len(schema) :
                      WrittenColumn(i, 1) = ColumnOf(rows, i, 0, FloorRows)

\* C22: a read_batch(0) made with the cursor below total_rows returns a
\* batch, with one empty buffer per channel, and leaves the cursor where it
\* was; a session on a file with rows whose batches all had size 0 has its
\* cursor at 0 and has never been answered None.
C22_ZeroBatch ==
    /\ (ret.op = "read_batch" /\ ret.a = 0 /\ ret.start < total_rows) =>
           /\ panicked = "none"
           /\ ret.batch.some
           /\ Len(ret.batch.cols) = Len(schema)
           /\ \A i \in 1..Len(schema) :
                  ret.batch.cols[i] = [tag |-> schema[i], vals |-> <<>>]
           /\ current_row = ret.start
           /\ current_row < total_rows
    /\ (session = "ready" /\ total_rows > 0
            /\ \A j \in 1..Len(hist) : hist[j] = 0) =>
           /\ current_row = 0
           /\ ~ReturnedNone
           /\ ret.op = "read_batch" => ret.a = 0

\* MaxCalls batches of size 0 from a file of three rows: the cursor is still
\* at 0
C22_Witness ==
    /\ Len(hist) = MaxCalls
    /\ \A j \in 1..Len(hist) : hist[j] = 0
    /\ total_rows = 3
    /\ current_row = 0
    /\ ret.op = "read_batch"
    /\ ret.a = 0
    /\ ret.batch.some
    /\ Len(schema) >= 2

\* C23: with a schema of zero channels, a read_batch made below total_rows
\* returns a batch of zero column buffers and advances the cursor by
\* min(batch size, remaining), and the Bulk Decoder returns zero column
\* buffers; the converter then fails on channels_data[0] in its first
\* iteration and writes nothing, and the reader binary fails on
\* channels_data[0] as soon as read_channels has returned and never reports.
C23_ZeroChannelsFail ==
    /\ [](schema = <<>> =>
             /\ (ret.op = "read_batch" /\ ret.start < total_rows) =>
                    /\ ret.batch = Some(<<>>)
                    /\ current_row
                           = ret.start + Min(ret.a, total_rows - ret.start)
                    /\ current_row > ret.start
                    /\ panicked = "index out of bounds"
             /\ bd.pc = "returned" => bd.final_results = <<>>
             /\ bd.pc # "reported"
             /\ conv.pc # "batch"
             /\ conv.written = <<>>
             /\ conv.pc = "done" => total_rows = 0)
    /\ [][(schema = <<>> /\ bd.pc = "returned") =>
              (panicked' = "index out of bounds" /\ bd' = bd)]_vars
    /\ [][(schema = <<>> /\ conv.pc = "loop" /\ current_row < total_rows) =>
              (panicked' = "index out of bounds" /\ conv' = conv
                   /\ ret'.batch = Some(<<>>))]_vars

\* the converter, with the default memory limit, on a zero-channel file of
\* three rows: read_batch returned no column and moved the cursor to 3, and
\* channels_data[0] failed
C23_Witness ==
    /\ schema = <<>>
    /\ panicked = "index out of bounds"
    /\ conv.pc = "loop"
    /\ conv.memory_limit_mb = 1024
    /\ ret.op = "read_batch"
    /\ ret.batch = Some(<<>>)
    /\ total_rows = 3
    /\ current_row = 3
    /\ row_size = 8

====
